---- MODULE Spec2Model ----
(***************************************************************************)
(* Model of the addressable tree network of src/system.rs (Network<N>,     *)
(* Counter, System::new, Device::device_path).                             *)
(***************************************************************************)
EXTENDS Integers, Sequences, FiniteSets, TLC

VARIABLES network, log, dp, alloc, console, channel, trace, screen, text

vars == <<network, log, dp, alloc, console, channel, trace, screen, text>>

\* The variables of the arena and of the walk over it.
arena == <<network, log, dp>>

\* The variables of the console and of the channel that feeds it.
terminal == <<console, channel, trace, screen>>

(* ------------------------------ bounds --------------------------------- *)

\* Largest number of insertions made into one arena.
MaxInserts == 3

\* Largest number of identifiers device_path collects before the walk is cut.
MaxPath == 5

\* Largest number of calls of Counter::next observed on one Counter.
MaxCalls == 3

\* How far below the largest u16 the observed Counters start.
NearOverflow == 40

\* Largest number of packets sent into the channel.
MaxPackets == 2

\* Largest number of calls of Console::receive.
MaxReceives == 2

\* Largest max_lines passed to Console::view.
MaxLines == 2

\* Longest string parsed into a DevicePath.
MaxStrLen == 6

(* ----------------------------- constants ------------------------------- *)

\* Address wraps a u16.
U16 == 65536

\* Counter::new starts the allocator at 1000.
CounterStart == 1000

(* --------------------- Option<T> and HashMap<K, V> --------------------- *)

None == <<>>

Some(x) == <<x>>

\* HashMap::insert: the key is added, or its value replaced.
Put(m, k, v) == [x \in (DOMAIN m) \cup {k} |-> IF x = k THEN v ELSE m[x]]

\* HashMap::get
Get(m, k) == IF k \in DOMAIN m THEN Some(m[k]) ELSE None

EmptyMap == <<>>

(* ------------------------------ inputs --------------------------------- *)

\* Addresses a caller supplies to connect_with_address; 1001 is also the
\* first address the allocator hands out.
ExplicitAddrs == {1, 1001}

\* Parent arguments a caller supplies.
ParentArgs == {None} \cup {Some(a) : a \in ExplicitAddrs}

\* The devices a caller inserts: an id and the address field the device
\* carries (Device::id(), Device::address()).
Devices == {[id |-> "a", address |-> 1], [id |-> "b", address |-> 1001]}

(* ------------------------------ Counter -------------------------------- *)

Counter_new == [value |-> CounterStart]

\* Iterator::next: self.value += 1; Some(self.value), on a u16.
Counter_next(c) ==
    LET v == (c.value + 1) % U16
    IN  [counter |-> [value |-> v], item |-> v]

\* self.value += 1 leaves the range of u16.
Counter_overflows(c) == c.value + 1 >= U16

\* A Counter on which next has been called n times without overflow: its
\* value, which is also the largest value returned so far, and the calls
\* observed from here on.
Counter_after(n) ==
    [counter |-> [value |-> CounterStart + n], start |-> CounterStart + n,
     returned |-> <<>>, panicked |-> FALSE]

\* No Counter is observed on its own.
alloc_idle == Counter_after(0)

\* The numbers of earlier calls of the observed Counters.
EarlierCalls == {0} \cup ((U16 - 1 - CounterStart - NearOverflow)..(U16 - 1 - CounterStart))

(* ------------------------------ Network -------------------------------- *)

Network_new ==
    [counter |-> Counter_new,
     root |-> None,
     nodes |-> EmptyMap,
     connections |-> EmptyMap,
     parent_connection |-> EmptyMap]

\* self.nodes.insert(new_address, new_node)
store_node(net, new_node, new_address) ==
    [net EXCEPT !.nodes = Put(@, new_address, new_node)]

\* The root follows the latest insertion.
assign_root_latest(net, new_address) ==
    [net EXCEPT !.root = Some(new_address)]

\* match self.root { None => self.root = Some(new_address), _ => {} }
assign_root(net, new_address) ==
    IF net.root = None THEN [net EXCEPT !.root = Some(new_address)] ELSE net

\* The parent's child list is replaced by the new address alone.
record_edge_replace(net, new_address, parent) ==
    IF parent = None
    THEN net
    ELSE LET p == parent[1]
         IN  [net EXCEPT
                !.connections = Put(@, p, <<new_address>>),
                !.parent_connection = Put(@, new_address, p)]

\* if let Some(p) = parent { push onto p's children, or create them;
\*                           parent_connection.insert(new_address, p) }
record_edge(net, new_address, parent) ==
    IF parent = None
    THEN net
    ELSE LET p == parent[1]
         IN  [net EXCEPT
                !.connections =
                    IF p \in DOMAIN @
                    THEN Put(@, p, Append(@[p], new_address))
                    ELSE Put(@, p, <<new_address>>),
                !.parent_connection = Put(@, new_address, p)]

\* The child list is created only when the address has none yet.
init_children_if_absent(net, new_address) ==
    IF new_address \in DOMAIN net.connections
    THEN net
    ELSE [net EXCEPT !.connections = Put(@, new_address, <<>>)]

\* self.connections.insert(new_address, Vec::new())
init_children(net, new_address) ==
    [net EXCEPT !.connections = Put(@, new_address, <<>>)]

\* The result of an insertion: the arena after it, the address returned, and
\* the parent argument that reached connect_with_address.
connect_with_address(net, new_node, new_address, parent) ==
    LET n1 == store_node(net, new_node, new_address)
        n2 == assign_root(n1, new_address)
        n3 == record_edge(n2, new_address, parent)
        n4 == init_children(n3, new_address)
    IN  [net |-> n4, ret |-> new_address, edge |-> parent]

connect_to_parent(net, new_node, parent) ==
    LET c == Counter_next(net.counter)
    IN  connect_with_address([net EXCEPT !.counter = c.counter],
                             new_node, c.item, parent)

connect_with_root(net, new_node, parent) ==
    IF DOMAIN net.nodes = {}
    THEN connect_to_parent(net, new_node, None)
    ELSE IF parent = None
         THEN connect_to_parent(net, new_node, net.root)
         ELSE connect_to_parent(net, new_node, parent)

get_node(net, address) == Get(net.nodes, address)

get_parent(net, address) == Get(net.parent_connection, address)

get_children(net, address) == Get(net.connections, address)

(* ---------------------------- System::new ------------------------------ *)

Mainframe == [id |-> "main", address |-> 1]

NetworkNode == [id |-> "net3", address |-> 3]

Terminal == [id |-> "term1", address |-> 2]

\* The three insertions of System::new, with the log entries they make.
System_new ==
    LET r1 == connect_with_address(Network_new, Mainframe,
                                   Mainframe.address, None)
        r2 == connect_with_root(r1.net, NetworkNode, None)
        r3 == connect_with_address(r2.net, Terminal,
                                   Terminal.address, Some(r2.ret))
    IN  [mainframe |-> Mainframe.address,
         terminal |-> Terminal.address,
         network |-> r3.net,
         calls |-> << [op |-> "connect_with_address", node |-> Mainframe,
                       address |-> Some(Mainframe.address), parent |-> None,
                       edge |-> r1.edge, ret |-> r1.ret, before |-> Network_new],
                      [op |-> "connect_with_root", node |-> NetworkNode,
                       address |-> None, parent |-> None,
                       edge |-> r2.edge, ret |-> r2.ret, before |-> r1.net],
                      [op |-> "connect_with_address", node |-> Terminal,
                       address |-> Some(Terminal.address),
                       parent |-> Some(r2.ret),
                       edge |-> r3.edge, ret |-> r3.ret, before |-> r2.net] >>]

(* --------------------------- device_path ------------------------------- *)

Reverse(s) == [i \in 1..Len(s) |-> s[Len(s) + 1 - i]]

\* No call of device_path is running.
dp_idle ==
    [pc |-> "idle", start |-> None, current |-> None, path |-> <<>>,
     dangling |-> FALSE, outcome |-> "none"]

\* let mut current = self; path.push(current.id());
device_path_enter(address, self) ==
    [pc |-> "loop", start |-> Some(address), current |-> Some(self),
     path |-> <<self.id>>, dangling |-> FALSE, outcome |-> "none"]

\* path.reverse(); DevicePath { path }: the only way device_path ends.
device_path_return(d, path, dangling) ==
    [d EXCEPT !.pc = "done", !.path = Reverse(path),
              !.dangling = dangling, !.outcome = "DevicePath"]

\* One evaluation of the while-let condition, and of the body if it holds.
device_path_iterate(net, d) ==
    LET current == d.current[1]
        p == get_parent(net, current.address)
    IN  IF p = None
        THEN device_path_return(d, d.path, FALSE)
        ELSE LET pushed == Append(d.path, current.id)
                 n == get_node(net, p[1])
             IN  IF n = None
                 THEN device_path_return(d, pushed, TRUE)
                 ELSE [d EXCEPT !.current = n, !.path = pushed]

(* ------------------------------ Console -------------------------------- *)

\* Strings are sequences of characters; a character is a string of length 1.
NewlineChar == "\n"

\* Console::new(width)
Console_new(width) ==
    [previous_lines |-> <<>>,
     current_line |-> <<>>,
     cursor_position |-> 0,
     text_width |-> width,
     receiver |-> None]

\* Console::give_receiver
give_receiver(con, receiver) == [con EXCEPT !.receiver = Some(receiver)]

\* Console::newline
newline(con) ==
    [con EXCEPT !.previous_lines = Append(@, con.current_line),
                !.cursor_position = 0,
                !.current_line = <<>>]

\* A newline is stored like any other character while the line has room.
receive_char_keeps_newline(con, c) ==
    IF Len(con.current_line) < con.text_width
    THEN [con EXCEPT !.cursor_position = @ + 1,
                     !.current_line = Append(@, c)]
    ELSE newline(con)

\* The line takes one character more than the width.
receive_char_one_more(con, c) ==
    IF Len(con.current_line) <= con.text_width /\ c # NewlineChar
    THEN [con EXCEPT !.cursor_position = @ + 1,
                     !.current_line = Append(@, c)]
    ELSE newline(con)

\* The body of `for c in &t`: the character extends the line, or the line is
\* completed (String::len counts bytes; the characters here are ASCII).
receive_char(con, c) ==
    IF Len(con.current_line) < con.text_width /\ c # NewlineChar
    THEN [con EXCEPT !.cursor_position = @ + 1,
                     !.current_line = Append(@, c)]
    ELSE newline(con)

\* for c in &t { ... }
RECURSIVE receive_chars(_, _)
receive_chars(con, t) ==
    IF t = <<>>
    THEN con
    ELSE receive_chars(receive_char(con, Head(t)), Tail(t))

\* Packet::Chars([char; 8]) and Packet::End
PacketLen == 8

Chars(t) == [kind |-> "Chars", chars |-> t]

End == [kind |-> "End", chars |-> <<>>]

\* match m { Packet::Chars(t) => ..., Packet::End => {} }
receive_packet(con, m) ==
    IF m.kind = "Chars" THEN receive_chars(con, m.chars) ELSE con

\* Every packet waiting in the channel is taken and applied.
RECURSIVE Console_receive_all(_, _)
Console_receive_all(con, chan) ==
    IF con.receiver = None \/ chan = <<>>
    THEN [console |-> con, channel |-> chan, got |-> None]
    ELSE LET r == Console_receive_all(receive_packet(con, Head(chan)),
                                      Tail(chan))
         IN  [console |-> r.console, channel |-> r.channel,
              got |-> Some(Head(chan))]

\* Console::receive: one try_recv on the receiver, if there is one; the
\* console after it, what is left in the channel, and the packet taken.
Console_receive(con, chan) ==
    IF con.receiver = None \/ chan = <<>>
    THEN [console |-> con, channel |-> chan, got |-> None]
    ELSE [console |-> receive_packet(con, Head(chan)),
          channel |-> Tail(chan),
          got |-> Some(Head(chan))]

\* accum.push('\n'); accum.push_str(&line) over the lines, last one first.
RECURSIVE rfold_lines(_, _)
rfold_lines(accum, lines) ==
    IF lines = <<>>
    THEN accum
    ELSE rfold_lines(accum \o <<NewlineChar>> \o lines[Len(lines)],
                     SubSeq(lines, 1, Len(lines) - 1))

Min(a, b) == IF a < b THEN a ELSE b

\* Console::view
view(con, max_lines) ==
    LET size == Min(Len(con.previous_lines), max_lines)
        shown == rfold_lines(<<>>, SubSeq(con.previous_lines, 1, size))
    IN  shown \o <<NewlineChar>> \o con.current_line

\* The widths the consoles are made with.
Widths == {0, 2, 5, 10}

\* The packets a producer sends.
PacketInputs ==
    { Chars(<<"h", "e", "l", "l", "o", "w", "o", "r">>),
      Chars(<<"l", "d", "\n", "\n", "a", "b", "\n", "c">>),
      Chars(<<"a", "b", "\n", "c", "\n", "d", "e", "\n">>),
      End }

\* No console is running.
console_idle == Console_new(0)

(* ----------------------------- DevicePath ------------------------------ *)

Slash == "/"

\* The index of the first "/" of s, or 0.
RECURSIVE FindSlash(_, _)
FindSlash(s, i) ==
    IF i > Len(s) THEN 0
    ELSE IF s[i] = Slash THEN i ELSE FindSlash(s, i + 1)

\* str::split("/"): the pieces between the slashes, empty ones included.
RECURSIVE split(_)
split(s) ==
    LET i == FindSlash(s, 1)
    IN  IF i = 0
        THEN <<s>>
        ELSE <<SubSeq(s, 1, i - 1)>> \o split(SubSeq(s, i + 1, Len(s)))

\* Vec<String>::join("/")
RECURSIVE join(_)
join(path) ==
    IF path = <<>> THEN <<>>
    ELSE IF Len(path) = 1 THEN path[1]
    ELSE path[1] \o <<Slash>> \o join(Tail(path))

IsNonEmpty(part) == part # <<>>

\* The empty pieces are kept.
DevicePath_from_keep_empty(s) == [path |-> split(s)]

\* impl From<&str> for DevicePath
DevicePath_from(s) == [path |-> SelectSeq(split(s), IsNonEmpty)]

\* impl fmt::Display for DevicePath
DevicePath_fmt(d) == join(d.path)

\* The characters of the parsed strings.
PathChars == {"a", "b", "c", Slash}

\* The strings of at most n characters.
Strings(n) == UNION {[1..k -> PathChars] : k \in 0..n}

\* No string is being parsed.
text_idle ==
    [pc |-> "input", round |-> 0, origin |-> <<>>, input |-> <<>>,
     path |-> <<>>, output |-> <<>>]

(* ------------------------------ actions -------------------------------- *)

Init ==
    /\ network = Network_new
    /\ log = <<>>
    /\ dp = dp_idle
    /\ alloc = alloc_idle
    /\ console = console_idle
    /\ channel = <<>>
    /\ trace = <<>>
    /\ screen = None
    /\ text = text_idle

\* The caller contract: an explicit address is not yet stored, a parent
\* address is already stored.
ContractOk(address, parent) ==
    /\ address # None => address[1] \notin DOMAIN network.nodes
    /\ parent # None => parent[1] \in DOMAIN network.nodes

Record(op, node, address, parent, r) ==
    /\ network' = r.net
    /\ log' = Append(log, [op |-> op, node |-> node, address |-> address,
                           parent |-> parent, edge |-> r.edge,
                           ret |-> r.ret, before |-> network])
    /\ UNCHANGED <<dp, alloc, terminal, text>>

ConnectToParent(contract) ==
    /\ dp.pc = "idle"
    /\ Len(log) < MaxInserts
    /\ \E node \in Devices, parent \in ParentArgs :
          /\ contract => ContractOk(None, parent)
          /\ Record("connect_to_parent", node, None, parent,
                    connect_to_parent(network, node, parent))

ConnectWithRoot(contract) ==
    /\ dp.pc = "idle"
    /\ Len(log) < MaxInserts
    /\ \E node \in Devices, parent \in ParentArgs :
          /\ contract => ContractOk(None, parent)
          /\ Record("connect_with_root", node, None, parent,
                    connect_with_root(network, node, parent))

ConnectWithAddress(contract) ==
    /\ dp.pc = "idle"
    /\ Len(log) < MaxInserts
    /\ \E node \in Devices, address \in ExplicitAddrs, parent \in ParentArgs :
          /\ contract => ContractOk(Some(address), parent)
          /\ Record("connect_with_address", node, Some(address), parent,
                    connect_with_address(network, node, address, parent))

SystemNew ==
    /\ dp.pc = "idle"
    /\ log = <<>>
    /\ Len(System_new.calls) <= MaxInserts
    /\ network' = System_new.network
    /\ log' = System_new.calls
    /\ UNCHANGED <<dp, alloc, terminal, text>>

\* device_path is called on a device stored in the arena.
DevicePathCall ==
    /\ dp.pc = "idle"
    /\ \E address \in DOMAIN network.nodes :
          dp' = device_path_enter(address, network.nodes[address])
    /\ UNCHANGED <<network, log, alloc, terminal, text>>

DevicePathLoop ==
    /\ dp.pc = "loop"
    /\ Len(dp.path) < MaxPath
    /\ dp' = device_path_iterate(network, dp)
    /\ UNCHANGED <<network, log, alloc, terminal, text>>

\* The caller takes the returned path.
DevicePathDone ==
    /\ dp.pc = "done"
    /\ dp' = dp_idle
    /\ UNCHANGED <<network, log, alloc, terminal, text>>

Next ==
    \/ ConnectToParent(FALSE)
    \/ ConnectWithRoot(FALSE)
    \/ ConnectWithAddress(FALSE)
    \/ SystemNew
    \/ DevicePathCall
    \/ DevicePathLoop
    \/ DevicePathDone

\* Every insertion respects the caller contract.
NextContract ==
    \/ ConnectToParent(TRUE)
    \/ ConnectWithRoot(TRUE)
    \/ ConnectWithAddress(TRUE)
    \/ SystemNew
    \/ DevicePathCall
    \/ DevicePathLoop
    \/ DevicePathDone

SpecContract == Init /\ [][NextContract]_vars

\* The insertions alone; device_path only reads the arena.
NextInsert ==
    \/ ConnectToParent(FALSE)
    \/ ConnectWithRoot(FALSE)
    \/ ConnectWithAddress(FALSE)
    \/ SystemNew

SpecInsert == Init /\ [][NextInsert]_vars

Spec == Init /\ [][Next]_vars

(* ------------------------- the Counter alone --------------------------- *)

InitCounter ==
    /\ network = Network_new
    /\ log = <<>>
    /\ dp = dp_idle
    /\ \E n \in EarlierCalls : alloc = Counter_after(n)
    /\ console = console_idle
    /\ channel = <<>>
    /\ trace = <<>>
    /\ screen = None
    /\ text = text_idle

\* A call of next that returns: always without overflow, and on overflow in
\* a build without overflow checks, where the addition wraps.
CounterNext ==
    /\ ~alloc.panicked
    /\ Len(alloc.returned) < MaxCalls
    /\ LET r == Counter_next(alloc.counter)
       IN  alloc' = [alloc EXCEPT !.counter = r.counter,
                                  !.returned = Append(@, r.item)]
    /\ UNCHANGED <<arena, terminal, text>>

\* A call of next on overflow in a build with overflow checks: the addition
\* panics and nothing is returned.
CounterNextPanic ==
    /\ ~alloc.panicked
    /\ Len(alloc.returned) < MaxCalls
    /\ Counter_overflows(alloc.counter)
    /\ alloc' = [alloc EXCEPT !.panicked = TRUE]
    /\ UNCHANGED <<arena, terminal, text>>

NextCounter ==
    \/ CounterNext
    \/ CounterNextPanic

SpecCounter == InitCounter /\ [][NextCounter]_vars

(* ------------------------- the Console alone --------------------------- *)

InitConsole ==
    /\ network = Network_new
    /\ log = <<>>
    /\ dp = dp_idle
    /\ alloc = alloc_idle
    /\ \E width \in Widths : console = Console_new(width)
    /\ channel = <<>>
    /\ trace = <<>>
    /\ screen = None
    /\ text = text_idle

\* The packets taken out of the channel so far.
Taken == Cardinality({i \in 1..Len(trace) : trace[i].got # None})

GiveReceiver ==
    /\ console.receiver = None
    /\ console' = give_receiver(console, "rx")
    /\ screen' = None
    /\ UNCHANGED <<arena, alloc, channel, trace, text>>

\* The producer sends a packet; the channel keeps the order.  (A string
\* rendered earlier is gone by the time the console or the channel moves.)
Send ==
    /\ Len(channel) + Taken < MaxPackets
    /\ \E m \in PacketInputs : channel' = Append(channel, m)
    /\ screen' = None
    /\ UNCHANGED <<arena, alloc, console, trace, text>>

Receive ==
    /\ Len(trace) < MaxReceives
    /\ LET r == Console_receive(console, channel)
       IN  /\ console' = r.console
           /\ channel' = r.channel
           /\ trace' = Append(trace, [before |-> console, waiting |-> channel,
                                      got |-> r.got, after |-> r.console,
                                      left |-> r.channel])
    /\ screen' = None
    /\ UNCHANGED <<arena, alloc, text>>

View ==
    /\ \E max_lines \in 0..MaxLines :
          screen' = Some([max_lines |-> max_lines,
                          of |-> console,
                          text |-> view(console, max_lines)])
    /\ UNCHANGED <<arena, alloc, console, channel, trace, text>>

NextConsole ==
    \/ GiveReceiver
    \/ Send
    \/ Receive
    \/ View

SpecConsole == InitConsole /\ [][NextConsole]_vars

(* ------------------------ DevicePath strings alone --------------------- *)

InitText ==
    /\ network = Network_new
    /\ log = <<>>
    /\ dp = dp_idle
    /\ alloc = alloc_idle
    /\ console = console_idle
    /\ channel = <<>>
    /\ trace = <<>>
    /\ screen = None
    /\ \E s \in Strings(MaxStrLen) :
          text = [pc |-> "input", round |-> 1, origin |-> s, input |-> s,
                  path |-> <<>>, output |-> <<>>]

\* DevicePath::from(input)
PathFrom ==
    /\ text.pc = "input"
    /\ text' = [text EXCEPT !.pc = "parsed",
                            !.path = DevicePath_from(text.input).path]
    /\ UNCHANGED <<arena, alloc, terminal>>

\* format!("{}", path)
PathFormat ==
    /\ text.pc = "parsed"
    /\ text' = [text EXCEPT !.pc = "formatted",
                            !.output = DevicePath_fmt([path |-> text.path])]
    /\ UNCHANGED <<arena, alloc, terminal>>

\* The formatted string is parsed in its turn.
PathAgain ==
    /\ text.pc = "formatted"
    /\ text.round = 1
    /\ text' = [text EXCEPT !.pc = "input", !.round = 2,
                            !.input = text.output]
    /\ UNCHANGED <<arena, alloc, terminal>>

NextText ==
    \/ PathFrom
    \/ PathFormat
    \/ PathAgain

SpecText == InitText /\ [][NextText]_vars

(* ------------------------- derived quantities -------------------------- *)

Stored == DOMAIN network.nodes

Calls == 1..Len(log)

\* The arena right after the i-th insertion.
After(i) == IF i < Len(log) THEN log[i + 1].before ELSE network

\* How often x occurs in the sequence s.
Count(s, x) == Cardinality({i \in 1..Len(s) : s[i] = x})

\* The addresses reached from x by one to fuel steps along the parent map.
RECURSIVE Ancestors(_, _, _)
Ancestors(net, x, fuel) ==
    IF fuel = 0 \/ x \notin DOMAIN net.parent_connection
    THEN {}
    ELSE LET p == net.parent_connection[x]
         IN  {p} \cup Ancestors(net, p, fuel - 1)

Acyclic(net) ==
    \A x \in DOMAIN net.parent_connection :
        x \notin Ancestors(net, x, Cardinality(DOMAIN net.parent_connection))

(* ------------------------------ claims --------------------------------- *)

\* C1: when every explicit address is new to the arena and every parent
\* address is stored, the parent map and the children map are mutual
\* inverses: x with parent p occurs exactly once among p's children, and
\* every child c of p has parent p.
C1_MutualInverse ==
    /\ \A x \in DOMAIN network.parent_connection :
          LET p == network.parent_connection[x]
          IN  /\ p \in DOMAIN network.connections
              /\ Count(network.connections[p], x) = 1
    /\ \A p \in DOMAIN network.connections :
          \A i \in 1..Len(network.connections[p]) :
              get_parent(network, network.connections[p][i]) = Some(p)

\* C2: when every explicit address is new to the arena at the moment it is
\* supplied, the addresses returned by the insertions are pairwise distinct.
C2_ReturnedDistinct ==
    \A i, j \in Calls : i # j => log[i].ret # log[j].ret

\* C3: the root is absent in a new arena, the first insertion makes the
\* address it returns the root, and the root is that address after every
\* later insertion.
C3_RootIsFirstReturned ==
    /\ log = <<>> => network.root = None
    /\ log # <<>> => log[1].before.root = None
    /\ \A i \in Calls : After(i).root = Some(log[1].ret)

C3_Witness ==
    /\ Len(log) >= 3
    /\ log[1].parent # None
    /\ log[2].ret # log[1].ret
    /\ log[3].op = "connect_with_address"
    /\ network.root = Some(log[1].ret)

\* C4: every address in the topology index (key or value of the parent map,
\* key or element of the children map) is the address of a stored node.
C4_IndexRefersToStored ==
    /\ \A x \in DOMAIN network.parent_connection :
          x \in Stored /\ network.parent_connection[x] \in Stored
    /\ \A p \in DOMAIN network.connections :
          /\ p \in Stored
          /\ \A i \in 1..Len(network.connections[p]) :
                network.connections[p][i] \in Stored

\* C5: no address is its own ancestor along the parent map, and an insertion
\* never changes the parent recorded for an address.
C5_AcyclicAndParentsKept ==
    /\ Acyclic(network)
    /\ \A i \in Calls :
          \A x \in DOMAIN log[i].before.parent_connection :
              get_parent(After(i), x) = get_parent(log[i].before, x)

\* C6: the root has no recorded parent and every other stored address has a
\* recorded parent.
C6_RootOnlyOrphan ==
    /\ network.root # None => get_parent(network, network.root[1]) = None
    /\ \A a \in Stored :
          Some(a) # network.root => get_parent(network, a) # None

\* C7: right after an insertion the returned address has an empty child
\* list; every inserted address always has a child list, and it is empty as
\* long as no child was inserted under the address.
C7_ChildrenPresent ==
    /\ \A i \in Calls : get_children(After(i), log[i].ret) = Some(<<>>)
    /\ \A i \in Calls :
          /\ get_children(network, log[i].ret) # None
          /\ (\A j \in Calls : log[j].edge # Some(log[i].ret))
                => get_children(network, log[i].ret) = Some(<<>>)

C7_Witness ==
    /\ Len(log) >= 2
    /\ get_children(network, log[1].ret) = Some(<<log[2].ret>>)
    /\ get_children(network, log[2].ret) = Some(<<>>)

\* What connect_with_root is said to do in its i-th call, ret being the
\* address it returned.
AttachedTo(i, p) ==
    /\ get_parent(After(i), log[i].ret) = Some(p)
    /\ get_children(After(i), p) =
          Some(Append(IF p \in DOMAIN log[i].before.connections
                      THEN log[i].before.connections[p] ELSE <<>>,
                      log[i].ret))

\* C8: connect_with_root on an empty arena makes the node the root, without a
\* parent, whatever the parent argument; on a non-empty arena it attaches the
\* node to the root when the parent is None, and to p when it is Some(p).
C8_ConnectWithRoot ==
    \A i \in Calls :
        log[i].op = "connect_with_root" =>
            IF DOMAIN log[i].before.nodes = {}
            THEN /\ After(i).root = Some(log[i].ret)
                 /\ get_parent(After(i), log[i].ret) = None
            ELSE IF log[i].parent = None
                 THEN AttachedTo(i, log[i].before.root[1])
                 ELSE AttachedTo(i, log[i].parent[1])

\* The addresses from a up to the first one without a recorded parent.
RECURSIVE Chain(_, _, _)
Chain(net, a, fuel) ==
    IF fuel = 0 \/ a \notin DOMAIN net.parent_connection
    THEN <<a>>
    ELSE Chain(net, net.parent_connection[a], fuel - 1) \o <<a>>

\* The parent chain of a leads to the root through stored nodes.
ChainFromRoot(net, a) ==
    LET c == Chain(net, a, Cardinality(DOMAIN net.parent_connection))
    IN  /\ Some(c[1]) = net.root
        /\ c[1] \notin DOMAIN net.parent_connection
        /\ \A i \in 1..Len(c) : c[i] \in DOMAIN net.nodes

ChainIds(net, a) ==
    LET c == Chain(net, a, Cardinality(DOMAIN net.parent_connection))
    IN  [i \in 1..Len(c) |-> net.nodes[c[i]].id]

\* C9: for a stored node whose parent chain is root = a0, ..., ak = the node,
\* device_path returns the identifiers of a0, ..., ak in that order.
C9_PathIsRootToNode ==
    (dp.pc = "done" /\ ChainFromRoot(network, dp.start[1]))
        => dp.path = ChainIds(network, dp.start[1])

\* C10: a walk that meets a parent address without a stored node ends in a
\* DanglingParentLink error, not in a returned path.
C10_DanglingIsError ==
    (dp.pc = "done" /\ dp.dangling) => dp.outcome = "DanglingParentLink"

\* Every insertion so far went to an address that was not stored.
FreshAddresses ==
    \A i \in Calls : log[i].ret \notin DOMAIN log[i].before.nodes

\* C17: device_path terminates on every stored node of an arena built by
\* insertions that respect the caller contract (new addresses, stored
\* parents).  The walk is deterministic and its only state is the current
\* device, so it terminates exactly when it never comes back to a device: it
\* is never in its loop with more identifiers collected than there are
\* stored nodes.
C17_WalkTerminates ==
    (FreshAddresses /\ dp.pc = "loop") => Len(dp.path) <= Cardinality(Stored)

\* The addresses inserted with parent p by the first n insertions, in order.
RECURSIVE InsertedUnder(_, _)
InsertedUnder(p, n) ==
    IF n = 0
    THEN <<>>
    ELSE IF log[n].edge = Some(p)
         THEN Append(InsertedUnder(p, n - 1), log[n].ret)
         ELSE InsertedUnder(p, n - 1)

\* C18: when every insertion went to an address not stored before,
\* get_children(p) of every stored p is the sequence of the addresses
\* inserted with parent p, in the order of their insertion.
C18_ChildrenInInsertionOrder ==
    FreshAddresses =>
        \A p \in Stored :
            get_children(network, p) = Some(InsertedUnder(p, Len(log)))

\* C19: an insertion at an address not stored before keeps the node, the
\* parent and the child list of every address stored before, except that the
\* new address is appended to the child list of the parent it is given.
C19_InsertionFrame ==
    \A i \in Calls :
        log[i].ret \notin DOMAIN log[i].before.nodes =>
            \A a \in DOMAIN log[i].before.nodes :
                /\ get_node(After(i), a) = get_node(log[i].before, a)
                /\ get_parent(After(i), a) = get_parent(log[i].before, a)
                /\ get_children(After(i), a) =
                      IF log[i].edge = Some(a)
                      THEN Some(Append(log[i].before.connections[a],
                                       log[i].ret))
                      ELSE get_children(log[i].before, a)

C19_Witness ==
    /\ Len(log) = 3
    /\ FreshAddresses
    /\ log[3].edge = Some(log[1].ret)
    /\ log[3].before.connections[log[1].ret] = <<log[2].ret>>
    /\ get_children(network, log[1].ret) = Some(<<log[2].ret, log[3].ret>>)
    /\ get_parent(network, log[2].ret) = Some(log[1].ret)

\* C11: every value Counter::next returns is greater than every value it
\* returned before (the first one of a new Counter being 1001), so that no
\* value is returned twice, however many calls are made.
C11_StrictlyIncreasing ==
    /\ \A i \in 1..Len(alloc.returned) :
          /\ alloc.returned[i] > alloc.start
          /\ \A j \in 1..(i - 1) : alloc.returned[i] > alloc.returned[j]
    /\ (alloc.start = CounterStart /\ alloc.returned # <<>>)
          => alloc.returned[1] = CounterStart + 1

(* ------------------------- claims on the console ----------------------- *)

\* The calls of receive that took a packet of characters.
CharCalls == {i \in 1..Len(trace) :
                 trace[i].got # None /\ trace[i].got[1].kind = "Chars"}

\* The console after the first k characters of the packet of call i.
StateAt(i, k) ==
    receive_chars(trace[i].before, SubSeq(trace[i].got[1].chars, 1, k))

\* C12: a character other than a newline extends the current line if the
\* line is shorter than the width, and otherwise completes the line and
\* becomes the first character of the next one, so that no character is
\* lost; with width 5, h,e,l,l,o,w,o,r leaves "hello" completed and "wor"
\* in progress.
C12_NoCharacterLost ==
    \A i \in CharCalls :
        /\ \A k \in 0..(PacketLen - 1) :
              LET c == trace[i].got[1].chars[k + 1]
                  s == StateAt(i, k)
                  t == StateAt(i, k + 1)
              IN  c # NewlineChar =>
                      IF Len(s.current_line) < s.text_width
                      THEN /\ t.current_line = Append(s.current_line, c)
                           /\ t.previous_lines = s.previous_lines
                      ELSE /\ t.current_line = <<c>>
                           /\ t.previous_lines =
                                 Append(s.previous_lines, s.current_line)
        /\ ( /\ trace[i].before.text_width = 5
             /\ trace[i].before.previous_lines = <<>>
             /\ trace[i].before.current_line = <<>>
             /\ trace[i].got[1].chars = <<"h", "e", "l", "l", "o", "w", "o", "r">> )
              => /\ trace[i].after.previous_lines = << <<"h", "e", "l", "l", "o">> >>
                 /\ trace[i].after.current_line = <<"w", "o", "r">>

\* No line of the console holds a newline character.
NoNewlineStored(con) ==
    /\ \A j \in 1..Len(con.current_line) : con.current_line[j] # NewlineChar
    /\ \A l \in 1..Len(con.previous_lines) :
          \A j \in 1..Len(con.previous_lines[l]) :
              con.previous_lines[l][j] # NewlineChar

\* C13: a newline character completes the current line whatever its length:
\* the line is appended to previous_lines, the current line becomes empty and
\* the newline is stored in neither; with width 10, a,b,newline,c leaves "ab"
\* completed and "c" in progress.
C13_NewlineCompletesLine ==
    \A i \in CharCalls :
        /\ \A k \in 0..(PacketLen - 1) :
              LET c == trace[i].got[1].chars[k + 1]
                  s == StateAt(i, k)
                  t == StateAt(i, k + 1)
              IN  /\ NoNewlineStored(t)
                  /\ c = NewlineChar =>
                        /\ t.previous_lines =
                              Append(s.previous_lines, s.current_line)
                        /\ t.current_line = <<>>
        /\ ( /\ trace[i].before.text_width = 10
             /\ trace[i].before.previous_lines = <<>>
             /\ trace[i].before.current_line = <<>>
             /\ SubSeq(trace[i].got[1].chars, 1, 4) = <<"a", "b", "\n", "c">> )
              => /\ StateAt(i, 4).previous_lines = << <<"a", "b">> >>
                 /\ StateAt(i, 4).current_line = <<"c">>

C13_Witness ==
    \E i \in CharCalls :
        /\ trace[i].before.text_width = 10
        /\ trace[i].before.previous_lines = <<>>
        /\ trace[i].before.current_line = <<>>
        /\ trace[i].got[1].chars = <<"a", "b", "\n", "c", "\n", "d", "e", "\n">>
        /\ trace[i].after.previous_lines =
              << <<"a", "b">>, <<"c">>, <<"d", "e">> >>
        /\ trace[i].after.current_line = <<>>

\* The lines one after the other, each on a line of its own.
RECURSIVE Lines(_)
Lines(ls) ==
    IF ls = <<>> THEN <<>>
    ELSE <<NewlineChar>> \o Head(ls) \o Lines(Tail(ls))

\* C14: view(max_lines) renders the last min(max_lines, n) of the n completed
\* lines, oldest first, and then the line in progress, one line per entry.
C14_ViewShowsLastLines ==
    screen # None =>
        LET con == screen[1].of
            n == Len(con.previous_lines)
            size == Min(screen[1].max_lines, n)
        IN  screen[1].text =
                Lines(SubSeq(con.previous_lines, n - size + 1, n)
                      \o <<con.current_line>>)

\* Applying the packets of a channel one after the other.
RECURSIVE ApplyAll(_, _)
ApplyAll(con, chan) ==
    IF chan = <<>> THEN con
    ELSE ApplyAll(receive_packet(con, Head(chan)), Tail(chan))

\* C15 as stated: a call of receive applies every packet waiting in the
\* channel, in the order sent, and changes nothing when there is no packet
\* or no receiver.
C15_ReceiveAppliesAll ==
    \A i \in 1..Len(trace) :
        IF trace[i].before.receiver = None \/ trace[i].waiting = <<>>
        THEN /\ trace[i].after = trace[i].before
             /\ trace[i].left = trace[i].waiting
        ELSE /\ trace[i].after = ApplyAll(trace[i].before, trace[i].waiting)
             /\ trace[i].left = <<>>

\* C15, amended: a call of receive applies at most one packet, the oldest one
\* waiting, and leaves the later ones in the channel in their order; it
\* changes nothing when there is no packet or no receiver.
C15_ReceiveAppliesOldest ==
    \A i \in 1..Len(trace) :
        IF trace[i].before.receiver = None \/ trace[i].waiting = <<>>
        THEN /\ trace[i].after = trace[i].before
             /\ trace[i].left = trace[i].waiting
             /\ trace[i].got = None
        ELSE /\ trace[i].got = Some(Head(trace[i].waiting))
             /\ trace[i].after =
                   ApplyAll(trace[i].before, <<Head(trace[i].waiting)>>)
             /\ trace[i].left = Tail(trace[i].waiting)

C15_Witness ==
    \E i \in CharCalls :
        /\ Len(trace[i].waiting) >= 2
        /\ trace[i].left # <<>>
        /\ trace[i].after # trace[i].before
        /\ channel = <<>>

\* The lines of the console fit the width and the cursor is at the end of
\* the current line.
WithinWidth(con) ==
    /\ Len(con.current_line) <= con.text_width
    /\ con.cursor_position = Len(con.current_line)
    /\ \A l \in 1..Len(con.previous_lines) :
          Len(con.previous_lines[l]) <= con.text_width

\* C20: in every state of the console, also between two characters of a
\* packet, the current line and every completed line hold at most text_width
\* characters and cursor_position is the length of the current line; a
\* Packet::End leaves the console as it was.
C20_LinesWithinWidth ==
    /\ WithinWidth(console)
    /\ \A i \in CharCalls :
          \A k \in 0..PacketLen : WithinWidth(StateAt(i, k))
    /\ \A i \in 1..Len(trace) :
          trace[i].got = Some(End) => trace[i].after = trace[i].before

C20_Witness ==
    /\ console.text_width > 0
    /\ Len(console.current_line) = console.text_width
    /\ console.previous_lines # <<>>
    /\ \E i \in 1..Len(trace) : trace[i].got = Some(End)

(* --------------------- claims on DevicePath strings -------------------- *)

\* The string without its slashes.
IsNotSlash(c) == c # Slash

Letters(s) == SelectSeq(s, IsNotSlash)

\* The positions of the characters of s that are not slashes, in order.
RECURSIVE LetterPositions(_, _)
LetterPositions(s, i) ==
    IF i > Len(s) THEN <<>>
    ELSE IF s[i] = Slash THEN LetterPositions(s, i + 1)
    ELSE <<i>> \o LetterPositions(s, i + 1)

\* out holds the non-empty segments of in, in order, joined by single
\* slashes, with no slash at either end.
IsNormalForm(in, out) ==
    LET pin == LetterPositions(in, 1)
        pout == LetterPositions(out, 1)
    IN  /\ Letters(out) = Letters(in)
        /\ out # <<>> => (out[1] # Slash /\ out[Len(out)] # Slash)
        /\ \A i \in 1..(Len(out) - 1) : ~(out[i] = Slash /\ out[i + 1] = Slash)
        /\ \A k \in 1..(Len(pin) - 1) :
              (pout[k + 1] = pout[k] + 1) <=> (pin[k + 1] = pin[k] + 1)

\* C16: parsing a string and formatting the DevicePath gives the non-empty
\* segments in order, joined by single slashes ("a/b/c" gives "a/b/c",
\* "/a//b/" gives "a/b"), and doing it again to the result changes nothing.
C16_ParseFormatNormalises ==
    text.pc = "formatted" =>
        /\ IsNormalForm(text.input, text.output)
        /\ text.input = <<"a", "/", "b", "/", "c">>
              => text.output = <<"a", "/", "b", "/", "c">>
        /\ text.input = <<"/", "a", "/", "/", "b", "/">>
              => text.output = <<"a", "/", "b">>
        /\ text.round = 2 => text.output = text.input

C16_Witness ==
    /\ text.pc = "formatted"
    /\ text.round = 2
    /\ text.origin = <<"/", "a", "/", "/", "b", "/">>
    /\ text.output = <<"a", "/", "b">>

====
